---- MODULE Spec2Model ----
(***************************************************************************)
(* Model of the crypto-microstructure repository:                          *)
(*   - src/src/collection.py : fetch_orderbook_snapshot and the fixed-grid *)
(*     sampling loop collect_orderbook_data;                               *)
(*   - src/src/analysis.py   : test_imbalance_hypothesis and               *)
(*     test_market_efficiency over a loaded DataFrame.                     *)
(* Wall-clock time is counted in microseconds (the resolution of           *)
(* datetime.now()); floats that the code computes by division are kept as  *)
(* exact fractions <<numerator, denominator>>.                             *)
(***************************************************************************)
EXTENDS Integers, Sequences, FiniteSets, TLC

VARIABLES
    \* ---- collect_orderbook_data (collection.py:92-190) ----
    pc,                \* "loop" (line 126), "fetch" (line 136), "done" (returned)
    duration_minutes,  \* argument
    interval_seconds,  \* argument
    now,               \* the wall clock, microseconds
    start_time,        \* line 116
    end_time,          \* line 117
    next_target,       \* line 124 / 157
    snapshots,         \* line 113
    snapshot_count,    \* line 120
    errors,            \* line 121
    cur,               \* what the running iteration computed at lines 128-134
    ticks,             \* one record per completed loop iteration, in order
    returned,          \* return value: Pending, NoneResult, or the DataFrame
    saved,             \* the CSV written at line 173 (NoFile while not written)
    summary,           \* the block printed at lines 176-184 (NoSummary while not printed)
    \* ---- fetch_orderbook_snapshot on its own (collection.py:38-89) ----
    fbook,             \* the order book the exchange returns
    fsnap,             \* Pending, or the function's return value
    \* ---- the analysis functions (analysis.py:41-175) ----
    df,                \* the caller's DataFrame: [columns, rows]
    horizons,          \* argument of test_imbalance_hypothesis
    thresholds,        \* argument of test_imbalance_hypothesis
    lags,              \* argument of test_market_efficiency
    imbalance_results, \* Pending, the returned dict, or the exception raised
    efficiency_results, \* Pending, the returned dict, or the exception raised
    \* ---- the top-level program (main.py:16-174) ----
    mpc,               \* position in main() / run_pipeline(); "exit" once the process ended
    argv,              \* sys.argv[1:]
    choice,            \* the menu input of line 152 ("" while not read)
    data_files,        \* the CSVs matching data/orderbook_BTC_USDT_*.csv, oldest first
    data_filepath,     \* line 39: index of the chosen file (0 while not chosen)
    pipeline_status,   \* return value of run_pipeline (None while it has not returned)
    steps,             \* the steps run_pipeline has completed, in order
    metrics,           \* the files written under results/metrics
    printed,           \* the diagnostics printed so far
    fault,             \* the exception that ended the process ("" for none)
    exit_code          \* the process exit code (None while running)

samplerVars == <<pc, duration_minutes, interval_seconds, now, start_time, end_time,
                 next_target, snapshots, snapshot_count, errors, cur, ticks,
                 returned, saved, summary>>
fetchVars == <<fbook, fsnap>>
analysisVars == <<df, horizons, thresholds, lags, imbalance_results, efficiency_results>>
mainVars == <<mpc, argv, choice, data_files, data_filepath, pipeline_status, steps,
              metrics, printed, fault, exit_code>>
vars == <<samplerVars, fetchVars, analysisVars, mainVars>>

----------------------------------------------------------------------------
(* Values *)

\* Scalars are tuples so that any two of them can be compared: a number is the
\* fraction <<numerator, denominator>>, Python's None is <<>>, a float NaN is <<"NaN">>.
None == <<>>
NaN == <<"NaN">>
Num(n) == <<n, 1>>

\* Return values and files
Pending == [kind |-> "pending"]
NoneResult == [kind |-> "None"]
NoFile == [kind |-> "absent"]
Frame(rows) == [kind |-> "DataFrame", rows |-> rows]
Dict(d) == [kind |-> "dict", value |-> d]
Raised(e) == [kind |-> "raised", error |-> e]
NoSummary == [kind |-> "none"]

MicrosPerSecond == 1000000
MillisPerSecond == 1000
SecondsPerMinute == 60
WarnLagSeconds == 1
DefaultDepth == 20
Top5 == 5
Top10 == 10
BpsFactor == 10000
PercentFactor == 100

\* Bounds of the model
MaxStartPhase == 1
FastFetch == 200
MaxLevels == 10
MaxSize == 2
MaxRows == 4

Min(a, b) == IF a < b THEN a ELSE b

\* Python truthiness of a number-or-None
Truthy(x) == x # None /\ x[1] # 0

RECURSIVE SumSizes(_, _)
SumSizes(levels, n) ==
    IF n = 0 THEN 0 ELSE levels[n][2] + SumSizes(levels, n - 1)

SumDepth(levels, n) == IF Len(levels) >= n THEN Num(SumSizes(levels, n)) ELSE None

\* int(snapshot_time.timestamp() * 1000): whole milliseconds, truncated
Timestamp(t) == t \div (MicrosPerSecond \div MillisPerSecond)

\* dict literal of lines 52-71, then the derived metrics of lines 74-82
SnapshotBase(book, t, depth) ==
    [ timestamp     |-> Timestamp(t),
      symbol        |-> "BTC/USDT",
      best_bid      |-> IF book.bids # <<>> THEN Num(book.bids[1][1]) ELSE None,
      best_ask      |-> IF book.asks # <<>> THEN Num(book.asks[1][1]) ELSE None,
      best_bid_size |-> IF book.bids # <<>> THEN Num(book.bids[1][2]) ELSE None,
      best_ask_size |-> IF book.asks # <<>> THEN Num(book.asks[1][2]) ELSE None,
      bids          |-> SubSeq(book.bids, 1, Min(depth, Len(book.bids))),
      asks          |-> SubSeq(book.asks, 1, Min(depth, Len(book.asks))),
      bid_depth_5   |-> SumDepth(book.bids, Top5),
      ask_depth_5   |-> SumDepth(book.asks, Top5),
      bid_depth_10  |-> SumDepth(book.bids, Top10),
      ask_depth_10  |-> SumDepth(book.asks, Top10) ]

ImbalanceGuard(s) == Truthy(s.bid_depth_5) /\ Truthy(s.ask_depth_5)

\* variant: a missing depth yields a zero imbalance instead of no imbalance
ImbalanceZeroDefault(s) ==
    IF ImbalanceGuard(s)
    THEN "imbalance_5" :> <<s.bid_depth_5[1] - s.ask_depth_5[1],
                            s.bid_depth_5[1] + s.ask_depth_5[1]>>
    ELSE "imbalance_5" :> Num(0)

Imbalance(s) ==
    IF ImbalanceGuard(s)
    THEN "imbalance_5" :> <<s.bid_depth_5[1] - s.ask_depth_5[1],
                            s.bid_depth_5[1] + s.ask_depth_5[1]>>
    ELSE <<>>

Derived(s) ==
    IF Truthy(s.best_bid) /\ Truthy(s.best_ask)
    THEN ( "spread"     :> Num(s.best_ask[1] - s.best_bid[1]) ) @@
         ( "spread_bps" :> <<(s.best_ask[1] - s.best_bid[1]) * BpsFactor, s.best_bid[1]>> ) @@
         ( "mid_price"  :> <<s.best_bid[1] + s.best_ask[1], 2>> ) @@
         Imbalance(s)
    ELSE <<>>

fetch_orderbook_snapshot(book, t, depth) ==
    LET s == SnapshotBase(book, t, depth) IN s @@ Derived(s)

----------------------------------------------------------------------------
(* Order books the exchange may return: best price first, positive sizes *)

BidPrice(i) == 100 - i
AskPrice(i) == 100 + i

BidLevels(n, size) == [i \in 1..n |-> <<BidPrice(i), size>>]
AskLevels(n, size) == [i \in 1..n |-> <<AskPrice(i), size>>]

Book(nb, sb, na, sa) == [bids |-> BidLevels(nb, sb), asks |-> AskLevels(na, sa)]

Books == { Book(nb, sb, na, sa) : nb \in 0..MaxLevels, sb \in 1..MaxSize,
                                  na \in 0..MaxLevels, sa \in 1..MaxSize }

\* the books served to the sampling loop: a deep one, a skewed one, a thin one
SamplerBooks == { Book(Top5, 1, Top5, 1), Book(Top5, 2, Top5, 1), Book(1, 1, 1, 1) }

----------------------------------------------------------------------------
(* collect_orderbook_data *)

IntervalChoices == {20, 30}
DurationChoices == {0, 1}
StartPhases == { p * 350 : p \in 0..MaxStartPhase }

Latencies(interval) ==
    { FastFetch,
      interval * MicrosPerSecond + MicrosPerSecond \div 2,
      2 * interval * MicrosPerSecond + 2 * MicrosPerSecond }

InitSampler ==
    /\ duration_minutes \in DurationChoices
    /\ interval_seconds \in IntervalChoices
    /\ now \in StartPhases
    /\ start_time = now
    /\ end_time = now + duration_minutes * SecondsPerMinute * MicrosPerSecond
    /\ next_target = now
    /\ snapshots = <<>>
    /\ snapshot_count = 0
    /\ errors = 0
    /\ cur = None
    /\ ticks = <<>>
    /\ returned = Pending
    /\ saved = NoFile
    /\ summary = NoSummary
    /\ pc = "loop"

InitFetchIdle ==
    /\ fbook = Book(0, 1, 0, 1)
    /\ fsnap = Pending

InitMainIdle ==
    /\ mpc = "idle"
    /\ argv = <<>>
    /\ choice = ""
    /\ data_files = <<>>
    /\ data_filepath = 0
    /\ pipeline_status = None
    /\ steps = <<>>
    /\ metrics = {}
    /\ printed = {}
    /\ fault = ""
    /\ exit_code = None

InitAnalysisIdle ==
    /\ df = [columns |-> {}, rows |-> <<>>]
    /\ horizons = <<>>
    /\ thresholds = <<>>
    /\ lags = <<>>
    /\ imbalance_results = Pending
    /\ efficiency_results = Pending

\* line 126: the loop test
KeepRunning(clock, endt) == clock < endt

\* lines 131-132: the time slept before the fetch
SleepFor(wait_time) == IF wait_time > 0 THEN wait_time ELSE 0

\* variant: warn only when more than one interval behind
BehindOneInterval(wait_time) ==
    ~(wait_time > 0) /\ wait_time < -(interval_seconds * MicrosPerSecond)

\* lines 133-134: the behind-schedule warning
BehindSchedule(wait_time) ==
    ~(wait_time > 0) /\ wait_time < -(WarnLagSeconds * MicrosPerSecond)

\* variant: the next target is re-anchored to the time the fetch completed
NextTargetDrift(target, interval) == now' + interval * MicrosPerSecond

\* line 157
NextTarget(target, interval) == target + interval * MicrosPerSecond

\* variant: a failed fetch is not counted
CountErrorLost(errs) == errs

\* line 154
CountError(errs) == errs + 1

\* variant: the DataFrame branch is taken whatever was collected
HasSnapshotsAlways(snaps) == TRUE

\* line 161
HasSnapshots(snaps) == snaps # <<>>

\* lines 126-134: loop test, wait computation, sleep or warning
BeginTick ==
    /\ pc = "loop"
    /\ KeepRunning(now, end_time)
    /\ LET wait_time == next_target - now
           slept == SleepFor(wait_time)
           warned == BehindSchedule(wait_time)
       IN /\ cur' = [target |-> next_target, at |-> now, wait |-> wait_time,
                     slept |-> slept, warned |-> warned]
          /\ now' = now + slept
    /\ pc' = "fetch"
    /\ UNCHANGED <<duration_minutes, interval_seconds, start_time, end_time, next_target,
                   snapshots, snapshot_count, errors, ticks, returned, saved, summary>>
    /\ UNCHANGED <<fetchVars, analysisVars, mainVars>>

\* lines 136-157 when the fetch returns a snapshot
FetchOk(lat, book) ==
    /\ pc = "fetch"
    /\ now' = now + lat
    /\ snapshots' = Append(snapshots, fetch_orderbook_snapshot(book, now', DefaultDepth))
    /\ snapshot_count' = snapshot_count + 1
    /\ errors' = errors
    /\ next_target' = NextTarget(next_target, interval_seconds)
    /\ ticks' = Append(ticks, cur @@ [fetch_at |-> now, took |-> lat, ok |-> TRUE])
    /\ cur' = None
    /\ pc' = "loop"
    /\ UNCHANGED <<duration_minutes, interval_seconds, start_time, end_time,
                   returned, saved, summary>>
    /\ UNCHANGED <<fetchVars, analysisVars, mainVars>>

\* lines 136-157 when the fetch raised and returned None (lines 87-89)
FetchFail(lat) ==
    /\ pc = "fetch"
    /\ now' = now + lat
    /\ snapshots' = snapshots
    /\ snapshot_count' = snapshot_count
    /\ errors' = CountError(errors)
    /\ next_target' = NextTarget(next_target, interval_seconds)
    /\ ticks' = Append(ticks, cur @@ [fetch_at |-> now, took |-> lat, ok |-> FALSE])
    /\ cur' = None
    /\ pc' = "loop"
    /\ UNCHANGED <<duration_minutes, interval_seconds, start_time, end_time,
                   returned, saved, summary>>
    /\ UNCHANGED <<fetchVars, analysisVars, mainVars>>

\* DataFrame of lines 162-168: columns are the union of the keys, a missing key is NaN,
\* bids/asks dropped, timestamp converted to a datetime index
DfColumns(snaps) ==
    (UNION { DOMAIN snaps[i] : i \in 1..Len(snaps) }) \ {"bids", "asks"}

ToDatetime(ms) == <<"datetime64[ms]", ms>>

DfRow(s, cols) ==
    [c \in cols |-> IF c \notin DOMAIN s THEN NaN
                    ELSE IF c = "timestamp" THEN ToDatetime(s[c])
                    ELSE IF c = "symbol" THEN s[c]
                    ELSE IF s[c] = None THEN NaN ELSE s[c]]

DataFrame(snaps) == [i \in 1..Len(snaps) |-> DfRow(snaps[i], DfColumns(snaps))]

\* round-half-even of n/d, the rounding of the ".1f" format
RoundHalfEven(n, d) ==
    LET q == n \div d
        r == n % d
    IN IF 2 * r < d THEN q
       ELSE IF 2 * r > d THEN q + 1
       ELSE IF q % 2 = 0 THEN q ELSE q + 1

\* variant: the rate is truncated instead of rounded
SuccessRateTruncated(count, errs) ==
    IF count + errs > 0
    THEN (count * PercentFactor * 10) \div (count + errs)
    ELSE 0

\* line 181: the success rate as printed, in tenths of a percent
SuccessRateTenths(count, errs) ==
    IF count + errs > 0
    THEN RoundHalfEven(count * PercentFactor * 10, count + errs)
    ELSE 0

Summary(count, errs) ==
    [kind |-> "summary", total_snapshots |-> count, errors |-> errs,
     success_rate_tenths |-> SuccessRateTenths(count, errs)]

\* lines 126 (loop exit) and 160-190
Finish ==
    /\ pc = "loop"
    /\ ~KeepRunning(now, end_time)
    /\ IF HasSnapshots(snapshots)
       THEN /\ saved' = Frame(DataFrame(snapshots))
            /\ summary' = Summary(snapshot_count, errors)
            /\ returned' = Frame(DataFrame(snapshots))
       ELSE /\ saved' = saved
            /\ summary' = summary
            /\ returned' = NoneResult
    /\ pc' = "done"
    /\ UNCHANGED <<duration_minutes, interval_seconds, now, start_time, end_time,
                   next_target, snapshots, snapshot_count, errors, cur, ticks>>
    /\ UNCHANGED <<fetchVars, analysisVars, mainVars>>

NextSampler ==
    \/ BeginTick
    \/ \E lat \in Latencies(interval_seconds) : \E book \in SamplerBooks : FetchOk(lat, book)
    \/ \E lat \in Latencies(interval_seconds) : FetchFail(lat)
    \/ Finish

Init == InitSampler /\ InitFetchIdle /\ InitAnalysisIdle /\ InitMainIdle
Next == NextSampler
Spec == Init /\ [][Next]_vars

----------------------------------------------------------------------------
(* fetch_orderbook_snapshot applied to one order book *)

InitSamplerIdle ==
    /\ duration_minutes = 0
    /\ interval_seconds = 20
    /\ now = 0
    /\ start_time = now
    /\ end_time = now
    /\ next_target = now
    /\ snapshots = <<>>
    /\ snapshot_count = 0
    /\ errors = 0
    /\ cur = None
    /\ ticks = <<>>
    /\ returned = Pending
    /\ saved = NoFile
    /\ summary = NoSummary
    /\ pc = "idle"

InitFetch ==
    /\ fbook \in Books
    /\ fsnap = Pending

\* lines 47-85: the exchange answered
FetchReturn ==
    /\ fsnap = Pending
    /\ fsnap' = Dict(fetch_orderbook_snapshot(fbook, now, DefaultDepth))
    /\ UNCHANGED fbook
    /\ UNCHANGED <<samplerVars, analysisVars, mainVars>>

\* lines 87-89: the exchange raised
FetchRaise ==
    /\ fsnap = Pending
    /\ fsnap' = NoneResult
    /\ UNCHANGED fbook
    /\ UNCHANGED <<samplerVars, analysisVars, mainVars>>

NextFetch == FetchReturn \/ FetchRaise

InitFetchSpec == InitSamplerIdle /\ InitFetch /\ InitAnalysisIdle /\ InitMainIdle

SpecFetch == InitFetchSpec /\ [][NextFetch]_vars

----------------------------------------------------------------------------
(* analysis.py: the DataFrame handed to the two tests *)

\* line 35
KeptColumns == {"spread_bps", "mid_price", "imbalance_5", "spread", "best_bid", "best_ask"}

ColumnSets == {KeptColumns, KeptColumns \ {"imbalance_5"}, KeptColumns \ {"mid_price"}}

PriceChoices == {1, 2}
ImbalanceChoices == {NaN, <<-6, 10>>, <<6, 10>>}
HorizonLists == {<<>>, <<1, 2>>, <<3, 1, 2>>}
LagLists == {<<2>>, <<2, 3>>}

\* line 41: thresholds = [0.3, 0.5, 0.7]
DefaultThresholds == << <<3, 10>>, <<5, 10>>, <<7, 10>> >>

Range(seq) == {seq[i] : i \in 1..Len(seq)}

\* one row of the frame: a locked book at price p with imbalance x
Row(p, x, cols) ==
    [c \in cols |->
        IF c = "imbalance_5" THEN x
        ELSE IF c \in {"spread", "spread_bps"} THEN Num(0)
        ELSE Num(p)]

\* the same row with an empty spread_bps cell
RowWithGap(p, x, cols) ==
    [c \in cols |-> IF c = "spread_bps" THEN NaN ELSE Row(p, x, cols)[c]]

InitAnalysis ==
    /\ \E n \in 0..MaxRows : \E cols \in ColumnSets : \E gap \in BOOLEAN :
         \E f \in [1..n -> PriceChoices \X ImbalanceChoices] :
            df = [columns |-> cols,
                  rows |-> [t \in 1..n |->
                              IF gap /\ t = 1
                              THEN RowWithGap(f[t][1], f[t][2], cols)
                              ELSE Row(f[t][1], f[t][2], cols)]]
    /\ horizons \in HorizonLists
    /\ thresholds = DefaultThresholds
    /\ lags \in LagLists
    /\ imbalance_results = Pending
    /\ efficiency_results = Pending

----------------------------------------------------------------------------
(* test_imbalance_hypothesis *)

\* float comparison a > b: False as soon as one side is NaN
FloatGt(a, b) == a # NaN /\ b # NaN /\ a[1] * b[2] > b[1] * a[2]

Sgn(n) == IF n > 0 THEN 1 ELSE IF n < 0 THEN -1 ELSE 0

\* df['mid_price'].pct_change(periods=h).shift(-h) at row t
ForwardReturn(rows, h, t) ==
    IF t + h > Len(rows) THEN NaN
    ELSE LET a == rows[t].mid_price
             b == rows[t + h].mid_price
         IN IF a = NaN \/ b = NaN THEN NaN
            ELSE <<b[1] * a[2] - a[1] * b[2], a[1] * b[2]>>

RECURSIVE SetProduct(_)
SetProduct(S) ==
    IF S = {} THEN 1 ELSE LET x == CHOOSE y \in S : TRUE IN x * SetProduct(S \ {x})

\* a common denominator of the forward returns
ReturnScale == SetProduct(PriceChoices)

\* the pairwise-complete observations of Series.corr, as integer pairs
\* (imbalance numerator, return over the common denominator)
RECURSIVE CorrPairs(_, _, _)
CorrPairs(rows, h, t) ==
    IF t > Len(rows) THEN <<>>
    ELSE LET x == rows[t].imbalance_5
             r == ForwardReturn(rows, h, t)
         IN (IF x # NaN /\ r # NaN
             THEN << <<x[1], r[1] * (ReturnScale \div r[2])>> >>
             ELSE <<>>) \o CorrPairs(rows, h, t + 1)

RECURSIVE SumProducts(_, _, _)
SumProducts(ps, i, j) ==
    IF ps = <<>> THEN 0
    ELSE (IF i = 0 THEN 1 ELSE Head(ps)[i]) * (IF j = 0 THEN 1 ELSE Head(ps)[j])
         + SumProducts(Tail(ps), i, j)

\* Pearson correlation of the pairs, kept as its signed square (an
\* order-preserving image of the coefficient): NaN with fewer than two
\* observations or a constant series
Pearson(ps) ==
    LET n == Len(ps)
        cov == n * SumProducts(ps, 1, 2) - SumProducts(ps, 1, 0) * SumProducts(ps, 2, 0)
        vx == n * SumProducts(ps, 1, 1) - SumProducts(ps, 1, 0) * SumProducts(ps, 1, 0)
        vy == n * SumProducts(ps, 2, 2) - SumProducts(ps, 2, 0) * SumProducts(ps, 2, 0)
    IN IF n < 2 \/ vx = 0 \/ vy = 0 THEN NaN
       ELSE <<Sgn(cov) * cov * cov, vx * vy>>

\* lines 82-86
Correlations(rows, hs) ==
    [h \in Range(hs) |-> Pearson(CorrPairs(rows, h, 1))]

\* max(correlations, key=correlations.get): the first key is kept until a
\* later key compares greater
RECURSIVE PyMaxFrom(_, _, _, _)
PyMaxFrom(hs, corr, i, best) ==
    IF i > Len(hs) THEN best
    ELSE PyMaxFrom(hs, corr, i + 1,
                   IF FloatGt(corr[hs[i]], corr[best]) THEN hs[i] ELSE best)

\* line 89
BestHorizon(hs, corr) == PyMaxFrom(hs, corr, 2, hs[1])

\* line 93: df['returns'] = ...
WithReturns(d, h) ==
    [columns |-> d.columns \cup {"returns"},
     rows |-> [t \in 1..Len(d.rows) |->
                 ("returns" :> ForwardReturn(d.rows, h, t)) @@ d.rows[t]]]

Abs(x) == IF x = NaN THEN NaN ELSE <<IF x[1] < 0 THEN -x[1] ELSE x[1], x[2]>>

\* dropna(): no NaN in any column of the row
RowComplete(row) == \A c \in DOMAIN row : row[c] # NaN

\* lines 97-98
Subset(d, thr) ==
    {t \in 1..Len(d.rows) :
        FloatGt(Abs(d.rows[t].imbalance_5), thr) /\ RowComplete(d.rows[t])}

\* line 101
Correct(d, thr) ==
    {t \in Subset(d, thr) :
        Sgn(d.rows[t].imbalance_5[1]) = Sgn(d.rows[t].returns[1])}

\* lines 95-103
Accuracies(d, thrs) ==
    [thr \in {x \in Range(thrs) : Subset(d, x) # {}} |->
        <<Cardinality(Correct(d, thr)), Cardinality(Subset(d, thr))>>]

\* lines 76-107
test_imbalance_hypothesis ==
    /\ imbalance_results = Pending
    /\ IF ~({"mid_price", "imbalance_5"} \subseteq df.columns)
       THEN /\ imbalance_results' = Raised("ValueError")
            /\ df' = df
       ELSE IF horizons = <<>>
       THEN /\ imbalance_results' = Raised("ValueError")
            /\ df' = df
       ELSE LET corr == Correlations(df.rows, horizons)
                best == BestHorizon(horizons, corr)
            IN /\ df' = WithReturns(df, best)
               /\ imbalance_results' =
                     [kind |-> "dict",
                      correlations |-> corr,
                      best_horizon |-> best,
                      directional_accuracy |-> Accuracies(df', thresholds)]
    /\ UNCHANGED <<horizons, thresholds, lags, efficiency_results>>
    /\ UNCHANGED <<samplerVars, fetchVars>>

----------------------------------------------------------------------------
(* test_market_efficiency *)

\* the arguments of np.log at lag k, undefined entries dropped (lines 141-142, 149-150)
RECURSIVE PriceRatios(_, _, _)
PriceRatios(rows, k, t) ==
    IF t > Len(rows) THEN <<>>
    ELSE LET a == rows[t].mid_price
             b == IF t - k >= 1 THEN rows[t - k].mid_price ELSE NaN
         IN (IF a # NaN /\ b # NaN THEN << <<a[1] * b[2], a[2] * b[1]>> >> ELSE <<>>)
            \o PriceRatios(rows, k, t + 1)

SameRatio(a, b) == a[1] * b[2] = b[1] * a[2]

\* Series.var() of the logs: NaN below two observations, 0 for a constant
\* series, positive otherwise (the magnitude is not represented)
Variance(xs) ==
    IF Len(xs) < 2 THEN "nan"
    ELSE IF \A i \in 1..Len(xs) : SameRatio(xs[i], xs[1]) THEN "zero"
    ELSE "pos"

\* line 156: var_k / (k * variance) in float arithmetic
VarianceRatio(vk, v1) ==
    IF vk = "nan" \/ v1 = "nan" THEN "nan"
    ELSE IF v1 = "zero" THEN (IF vk = "zero" THEN "nan" ELSE "inf")
    ELSE vk

\* line 160: np.mean of the ratios
AverageVr(ratios, ks) ==
    IF ks = <<>> THEN "nan"
    ELSE IF \E k \in Range(ks) : ratios[k] = "nan" THEN "nan"
    ELSE IF \E k \in Range(ks) : ratios[k] = "inf" THEN "inf"
    ELSE IF \A k \in Range(ks) : ratios[k] = "zero" THEN "zero"
    ELSE "pos"

\* lines 162-167: a positive finite average may fall in any of the three bands
Characterizations(avg) ==
    IF avg = "nan" THEN {"Approximately efficient (random walk)"}
    ELSE IF avg = "inf" THEN {"Trending/Momentum"}
    ELSE IF avg = "zero" THEN {"Mean-reverting"}
    ELSE {"Trending/Momentum", "Mean-reverting", "Approximately efficient (random walk)"}

\* lines 137-175
test_market_efficiency ==
    /\ efficiency_results = Pending
    /\ IF "mid_price" \notin df.columns
       THEN efficiency_results' = Raised("KeyError")
       ELSE LET variance == Variance(PriceRatios(df.rows, 1, 1))
                variance_ratios ==
                    [k \in Range(lags) |->
                        VarianceRatio(Variance(PriceRatios(df.rows, k, 1)), variance)]
                avg_vr == AverageVr(variance_ratios, lags)
            IN \E c \in Characterizations(avg_vr) :
                 efficiency_results' =
                     [kind |-> "dict",
                      variance_ratios |-> variance_ratios,
                      average_vr |-> avg_vr,
                      market_characterization |-> c]
    /\ UNCHANGED <<df, horizons, thresholds, lags, imbalance_results>>
    /\ UNCHANGED <<samplerVars, fetchVars>>

\* the two tests called directly on a frame
CallImbalanceTest == test_imbalance_hypothesis /\ UNCHANGED mainVars

CallEfficiencyTest == test_market_efficiency /\ UNCHANGED mainVars

NextAnalysis == CallImbalanceTest \/ CallEfficiencyTest

InitAnalysisSpec == InitSamplerIdle /\ InitFetchIdle /\ InitAnalysis /\ InitMainIdle

SpecAnalysis == InitAnalysisSpec /\ [][NextAnalysis]_vars

-----------------------------------------------------------------------------
(* main(): the command line, the menu and run_pipeline *)

MaxFileRows == 3
MaxCollectedRows == 1

\* the defaults of the two tests' signatures
DefaultHorizons == [h \in 1..30 |-> h]
DefaultLags == <<2, 5, 7, 10, 15, 20, 25, 30>>

ArgvChoices == {<<>>, <<"analyse">>, <<"collect">>, <<"help">>}
MenuInputs == {"1", "2", "3", "4"}

\* the content of a CSV under data/: its header and its numeric rows
CsvFiles(maxRows, colSets) ==
    UNION {{[columns |-> cols, rows |-> [t \in 1..n |-> Row(f[t][1], f[t][2], cols)]] :
               f \in [1..n -> PriceChoices \X ImbalanceChoices]} :
           <<n, cols>> \in (0..maxRows) \X colSets}

\* collect_orderbook_data writes a file only when it has at least one snapshot
CollectedFiles == {c \in CsvFiles(MaxCollectedRows, {KeptColumns}) : Len(c.rows) >= 1}

\* a dict key is a typed value: 1 and '1' are different keys
IntKey(h) == <<"int", h>>
StrKey(h) == <<"str", h>>

\* the keys of a result map in memory: the ints the loop assigned under
Keys(d) == {IntKey(h) : h \in DOMAIN d}

\* json.dump writes every key as a string
JsonKeys(d) == {StrKey(k[2]) : k \in Keys(d)}

InitMain ==
    /\ mpc = "main"
    /\ argv \in ArgvChoices
    /\ choice = ""
    /\ data_files \in {<<>>} \cup {<<c>> : c \in CsvFiles(MaxFileRows, ColumnSets)}
    /\ data_filepath = 0
    /\ pipeline_status = None
    /\ steps = <<>>
    /\ metrics = {}
    /\ printed = {}
    /\ fault = ""
    /\ exit_code = None

InitPipelineArguments ==
    /\ df = [columns |-> {}, rows |-> <<>>]
    /\ horizons = DefaultHorizons
    /\ thresholds = DefaultThresholds
    /\ lags = DefaultLags
    /\ imbalance_results = Pending
    /\ efficiency_results = Pending

\* an exception nobody catches ends the process with a traceback and status 1
Fault(e) ==
    /\ fault' = e
    /\ exit_code' = Num(1)
    /\ mpc' = "exit"
    /\ steps' = steps

Completed(step, label) ==
    /\ steps' = Append(steps, step)
    /\ mpc' = label
    /\ UNCHANGED <<fault, exit_code>>

\* main.py:136-168: dispatch on the command line or on the menu input
Main ==
    /\ mpc = "main"
    /\ IF Len(argv) > 0
       THEN /\ choice' = choice
            /\ mpc' = IF argv[1] = "collect" THEN "collect"
                      ELSE IF argv[1] = "analyse" THEN "find"
                      ELSE "return"
            /\ printed' = IF argv[1] \in {"collect", "analyse"} THEN printed
                          ELSE printed \cup {"Usage: python main.py [collect|analyse]"}
            /\ exit_code' = exit_code
       ELSE \E c \in MenuInputs :
            /\ choice' = c
            /\ mpc' = IF c = "1" THEN "find"
                      ELSE IF c \in {"2", "3"} THEN "collect"
                      ELSE "exit"
            /\ printed' = IF c \in {"1", "2", "3"} THEN printed
                          ELSE printed \cup {"Invalid choice"}
            /\ exit_code' = IF c \in {"1", "2", "3"} THEN exit_code ELSE Num(1)
    /\ UNCHANGED <<argv, data_files, data_filepath, pipeline_status, steps, metrics, fault>>
    /\ UNCHANGED <<samplerVars, fetchVars, analysisVars>>

\* main.py:106-130 with lines 140, 159, 163-165: the collection returns None and
\* writes nothing, or returns a DataFrame after writing it to a new file
collect_new_data ==
    /\ mpc = "collect"
    /\ \/ /\ data_files' = data_files
          /\ mpc' = "return"
       \/ \E c \in CollectedFiles :
          /\ data_files' = Append(data_files, c)
          /\ mpc' = IF choice = "3" THEN "find" ELSE "return"
    /\ UNCHANGED <<argv, choice, data_filepath, pipeline_status, steps, metrics, printed,
                   fault, exit_code>>
    /\ UNCHANGED <<samplerVars, fetchVars, analysisVars>>

\* main.py:29-39
FindDataFile ==
    /\ mpc = "find"
    /\ IF data_files = <<>>
       THEN /\ printed' = printed \cup {"No data files found."}
            /\ pipeline_status' = Num(1)
            /\ mpc' = "return"
            /\ data_filepath' = data_filepath
       ELSE /\ data_filepath' = Len(data_files)
            /\ mpc' = "load"
            /\ UNCHANGED <<printed, pipeline_status>>
    /\ UNCHANGED <<argv, choice, data_files, steps, metrics, fault, exit_code>>
    /\ UNCHANGED <<samplerVars, fetchVars, analysisVars>>

\* main.py:48 and analysis.py:30-38: selecting the kept columns fails on a
\* file that lacks one of them
LoadData ==
    /\ mpc = "load"
    /\ LET file == data_files[data_filepath]
       IN IF KeptColumns \subseteq file.columns
          THEN /\ df' = file
               /\ Completed("load", "imbalance")
          ELSE /\ df' = df
               /\ Fault("KeyError")
    /\ UNCHANGED <<horizons, thresholds, lags, imbalance_results, efficiency_results>>
    /\ UNCHANGED <<argv, choice, data_files, data_filepath, pipeline_status, metrics, printed>>
    /\ UNCHANGED <<samplerVars, fetchVars>>

\* main.py:52
RunImbalanceTest ==
    /\ mpc = "imbalance"
    /\ test_imbalance_hypothesis
    /\ IF imbalance_results'.kind = "raised"
       THEN Fault(imbalance_results'.error)
       ELSE Completed("imbalance test", "save_imbalance")
    /\ UNCHANGED <<argv, choice, data_files, data_filepath, pipeline_status, metrics, printed>>

\* main.py:53 and analysis.py:178-192
SaveImbalanceResults ==
    /\ mpc = "save_imbalance"
    /\ metrics' = metrics \cup {[name |-> "imbalance_hypothesis_results.json",
                                 keys |-> JsonKeys(imbalance_results.correlations)]}
    /\ Completed("persist", "efficiency")
    /\ UNCHANGED <<argv, choice, data_files, data_filepath, pipeline_status, printed>>
    /\ UNCHANGED <<samplerVars, fetchVars, analysisVars>>

\* main.py:56
RunEfficiencyTest ==
    /\ mpc = "efficiency"
    /\ test_market_efficiency
    /\ IF efficiency_results'.kind = "raised"
       THEN Fault(efficiency_results'.error)
       ELSE Completed("efficiency test", "save_efficiency")
    /\ UNCHANGED <<argv, choice, data_files, data_filepath, pipeline_status, metrics, printed>>

\* main.py:57 and analysis.py:178-192
SaveEfficiencyResults ==
    /\ mpc = "save_efficiency"
    /\ metrics' = metrics \cup {[name |-> "market_efficiency_results.json",
                                 keys |-> JsonKeys(efficiency_results.variance_ratios)]}
    /\ Completed("persist", "plot_imbalance")
    /\ UNCHANGED <<argv, choice, data_files, data_filepath, pipeline_status, printed>>
    /\ UNCHANGED <<samplerVars, fetchVars, analysisVars>>

\* visualisation.py:84: the returns at the best horizon, recomputed
PlotReturns(t) == ForwardReturn(df.rows, imbalance_results.best_horizon, t)

\* visualisation.py:95
ValidMask ==
    {t \in 1..Len(df.rows) : df.rows[t].imbalance_5 # NaN /\ PlotReturns(t) # NaN}

\* main.py:70-74 and visualisation.py:79-161. With two valid points the fitted
\* line is labelled with correlations[str(best_horizon)]; the percentiles of an
\* empty return series make the axis limits NaN, which the plotting library
\* either rejects or accepts depending on its version.
PlotImbalanceAnalysis ==
    /\ mpc = "plot_imbalance"
    /\ IF /\ Cardinality(ValidMask) >= 2
          /\ StrKey(imbalance_results.best_horizon) \notin Keys(imbalance_results.correlations)
       THEN Fault("KeyError")
       ELSE IF \A t \in 1..Len(df.rows) : PlotReturns(t) = NaN
       THEN \/ Fault("ValueError")
            \/ Completed("imbalance chart", "plot_variance")
       ELSE Completed("imbalance chart", "plot_variance")
    /\ UNCHANGED <<argv, choice, data_files, data_filepath, pipeline_status, metrics, printed>>
    /\ UNCHANGED <<samplerVars, fetchVars, analysisVars>>

\* main.py:77-81 and visualisation.py:178-219: the keys are mapped through int()
PlotVarianceRatioAnalysis ==
    /\ mpc = "plot_variance"
    /\ Completed("variance chart", "summary")
    /\ UNCHANGED <<argv, choice, data_files, data_filepath, pipeline_status, metrics, printed>>
    /\ UNCHANGED <<samplerVars, fetchVars, analysisVars>>

\* main.py:89-103: the summary reads correlations[str(best_horizon)], then
\* run_pipeline returns 0
PrintSummary ==
    /\ mpc = "summary"
    /\ IF StrKey(imbalance_results.best_horizon) \in Keys(imbalance_results.correlations)
       THEN /\ Completed("summary", "return")
            /\ pipeline_status' = Num(0)
       ELSE /\ Fault("KeyError")
            /\ pipeline_status' = pipeline_status
    /\ UNCHANGED <<argv, choice, data_files, data_filepath, metrics, printed>>
    /\ UNCHANGED <<samplerVars, fetchVars, analysisVars>>

\* main.py:170 and 174: whatever the branch returned is dropped, main returns 0
\* and sys.exit passes it on
MainReturn ==
    /\ mpc = "return"
    /\ exit_code' = Num(0)
    /\ mpc' = "exit"
    /\ UNCHANGED <<argv, choice, data_files, data_filepath, pipeline_status, steps, metrics,
                   printed, fault>>
    /\ UNCHANGED <<samplerVars, fetchVars, analysisVars>>

NextMain ==
    \/ Main
    \/ collect_new_data
    \/ FindDataFile
    \/ LoadData
    \/ RunImbalanceTest
    \/ SaveImbalanceResults
    \/ RunEfficiencyTest
    \/ SaveEfficiencyResults
    \/ PlotImbalanceAnalysis
    \/ PlotVarianceRatioAnalysis
    \/ PrintSummary
    \/ MainReturn

InitMainSpec == InitSamplerIdle /\ InitFetchIdle /\ InitPipelineArguments /\ InitMain

SpecMain == InitMainSpec /\ [][NextMain]_vars

----------------------------------------------------------------------------
(* Properties of the sampling loop *)

TickIds == 1..Len(ticks)
SucceededFetches == {n \in TickIds : ticks[n].ok}
FailedFetches == {n \in TickIds : ~ticks[n].ok}
IntervalMicros == interval_seconds * MicrosPerSecond
GridTarget(n) == start_time + (n - 1) * IntervalMicros

\* C1: a finished run returns (and has saved) the DataFrame of the accumulated
\* snapshots exactly when at least one fetch succeeded, one row per successful
\* fetch; when no fetch succeeded it returns None and no file is written.
C1_YieldIffSomeSuccess ==
    pc = "done" =>
        IF SucceededFetches # {}
        THEN /\ returned.kind = "DataFrame"
             /\ Len(returned.rows) = Cardinality(SucceededFetches)
             /\ Len(snapshots) = Cardinality(SucceededFetches)
             /\ saved = returned
        ELSE /\ returned = NoneResult
             /\ saved = NoFile

C1_Witness ==
    /\ pc = "done"
    /\ Len(ticks) >= 3
    /\ SucceededFetches = {}
    /\ returned = NoneResult

\* C2: a step in which the fetch fails adds exactly one to errors, leaves the
\* snapshot list and the snapshot counter alone, moves next_target forward by
\* one interval and goes back to the loop test with nothing returned yet; and
\* in every state snapshot_count + errors is the number of ticks executed.
C2_FailureStep ==
    (pc = "fetch" /\ pc' = "loop" /\ ~ticks'[Len(ticks')].ok) =>
        /\ errors' = errors + 1
        /\ snapshots' = snapshots
        /\ snapshot_count' = snapshot_count
        /\ next_target' = next_target + IntervalMicros
        /\ returned' = Pending

C2_SoftFailure ==
    /\ [](snapshot_count + errors = Len(ticks))
    /\ [](snapshot_count = Cardinality(SucceededFetches))
    /\ [][C2_FailureStep]_vars

C2_Witness ==
    /\ pc = "loop"
    /\ Len(ticks) >= 3
    /\ ~ticks[Len(ticks)].ok
    /\ errors >= 2
    /\ snapshot_count >= 1

\* C3: the target of the n-th tick is start + (n-1) * interval whatever the
\* earlier fetches took and returned, the sleep before its fetch is
\* max(0, target - now) and so never negative, and the fetch starts when that
\* sleep ends; between ticks next_target is the next grid point.
C3_FixedGrid ==
    /\ \A n \in TickIds :
          /\ ticks[n].target = GridTarget(n)
          /\ ticks[n].slept >= 0
          /\ ticks[n].slept = (IF ticks[n].target - ticks[n].at > 0
                               THEN ticks[n].target - ticks[n].at ELSE 0)
          /\ ticks[n].fetch_at = ticks[n].at + ticks[n].slept
    /\ pc = "loop" => next_target = GridTarget(Len(ticks) + 1)

\* a late tick (no sleep) followed by a tick that is early again and sleeps
C3_Witness ==
    /\ Len(ticks) >= 3
    /\ ticks[1].took > IntervalMicros
    /\ ticks[2].wait < 0
    /\ ticks[2].slept = 0
    /\ ticks[3].slept > 0
    /\ ~ticks[2].ok

\* the fetch of tick n - 1 took longer than the interval, or tick n starts more
\* than one interval behind its target
OverranOrIntervalBehind(n) ==
    \/ (n > 1 /\ ticks[n - 1].took > IntervalMicros)
    \/ ticks[n].at - ticks[n].target > IntervalMicros

\* C4 as stated: every tick that follows a fetch longer than the interval, or
\* that starts more than one interval behind its target, carries a warning.
C4_WarnWhenOverInterval ==
    \A n \in TickIds : OverranOrIntervalBehind(n) => ticks[n].warned

\* C4 amended: every tick that starts more than one second behind its target
\* carries a behind-schedule warning, and it is still executed on the grid:
\* its target is start + (n-1) * interval and its fetch starts at once.
C4_WarnWhenOverOneSecond ==
    \A n \in TickIds :
        (ticks[n].at - ticks[n].target > WarnLagSeconds * MicrosPerSecond) =>
            /\ ticks[n].warned
            /\ ticks[n].target = GridTarget(n)
            /\ ticks[n].fetch_at = ticks[n].at

\* a warned tick that is less than one interval behind, with a tick after it
C4_Witness ==
    \E n \in TickIds :
        /\ ticks[n].warned
        /\ ticks[n].at - ticks[n].target < IntervalMicros
        /\ n < Len(ticks)

\* C5 as stated: no fetch starts at or after start + duration.
C5_NoFetchAtOrAfterEnd ==
    \A n \in TickIds : ticks[n].fetch_at < end_time

\* C6 as stated: a finished run that made at least one fetch has printed the
\* summary, with the two counts and the rate snapshots / (snapshots + errors).
RateMatches(tenths, good, bad) ==
    LET diff == tenths * (good + bad) - good * PercentFactor * 10
    IN 2 * diff <= good + bad /\ -2 * diff <= good + bad

SummaryMatches ==
    /\ summary.kind = "summary"
    /\ summary.total_snapshots = Cardinality(SucceededFetches)
    /\ summary.errors = Cardinality(FailedFetches)
    /\ RateMatches(summary.success_rate_tenths,
                   Cardinality(SucceededFetches), Cardinality(FailedFetches))

C6_SummaryAlways ==
    (pc = "done" /\ ticks # <<>>) => SummaryMatches

\* C6 amended: a finished run in which at least one fetch succeeded has printed
\* the summary: the number of successful fetches, the number of failed ones and
\* the rate snapshots / (snapshots + errors) as a percentage rounded to one
\* decimal; a run in which no fetch succeeded prints no summary.
C6_SummaryWhenSomeSuccess ==
    pc = "done" =>
        IF SucceededFetches # {} THEN SummaryMatches ELSE summary = NoSummary

\* a connector that fails on every second call
C6_Witness ==
    /\ pc = "done"
    /\ Len(ticks) >= 3
    /\ \A n \in TickIds : ticks[n].ok <=> (n % 2 = 1)
    /\ summary.kind = "summary"

\* C8 as stated: the timestamps of the snapshot list are pairwise distinct and
\* non-decreasing in insertion order.
C8_DistinctOrderedTimestamps ==
    \A i, j \in 1..Len(snapshots) :
        i < j => snapshots[i].timestamp < snapshots[j].timestamp

----------------------------------------------------------------------------
(* Properties of fetch_orderbook_snapshot *)

Defined5(levels) == Len(levels) >= Top5

----------------------------------------------------------------------------
(* Properties of the analysis functions *)

Position(seq, x) == CHOOSE i \in 1..Len(seq) : seq[i] = x

SameFloat(a, b) ==
    \/ (a = NaN /\ b = NaN)
    \/ (a # NaN /\ b # NaN /\ a[1] * b[2] = b[1] * a[2])

\* C9 as stated: the returned best_horizon is one of the supplied horizons, no
\* tested horizon has a defined correlation above its own (so its correlation
\* is defined as soon as one is), and it is the first horizon in iteration
\* order with that correlation.
C9_BestIsFirstSignedMax ==
    imbalance_results.kind = "dict" =>
        LET c == imbalance_results.correlations
            b == imbalance_results.best_horizon
        IN /\ b \in Range(horizons)
           /\ \A h \in Range(horizons) :
                 c[h] # NaN => (c[b] # NaN /\ ~FloatGt(c[h], c[b]))
           /\ \A i \in 1..Len(horizons) :
                 i < Position(horizons, b) => ~SameFloat(c[horizons[i]], c[b])

\* C10 as stated: a step in which either test returns leaves the caller's
\* DataFrame with the columns and values it had before the call.
C10_CallLeavesFrame ==
    (imbalance_results' # imbalance_results \/ efficiency_results' # efficiency_results)
        => df' = df

C10_InputFrameUnchanged == [][C10_CallLeavesFrame]_vars

V1 == Variance(PriceRatios(df.rows, 1, 1))
Vk(k) == Variance(PriceRatios(df.rows, k, 1))

\* C11 as stated: when test_market_efficiency has been called on a frame whose
\* one-step variance and every lag's variance are 0, it returned a record in
\* which every ratio and the average are undefined and the characterization
\* is not the default 'Approximately efficient (random walk)'.
C11_ConstantPriceExplicit ==
    ( /\ efficiency_results # Pending
      /\ "mid_price" \in df.columns
      /\ V1 = "zero"
      /\ \A k \in Range(lags) : Vk(k) = "zero" ) =>
        /\ efficiency_results.kind = "dict"
        /\ \A k \in Range(lags) : efficiency_results.variance_ratios[k] = "nan"
        /\ efficiency_results.average_vr = "nan"
        /\ efficiency_results.market_characterization
              # "Approximately efficient (random walk)"

HasDefined(col) ==
    col \in df.columns /\ \E t \in 1..Len(df.rows) : df.rows[t][col] # NaN

\* C12 as stated: a test that was called on a frame lacking a column it reads,
\* or having no row where that column is defined, raised instead of returning
\* a result record.
C12_FailFast ==
    /\ (imbalance_results # Pending
          /\ ~(HasDefined("mid_price") /\ HasDefined("imbalance_5")))
            => imbalance_results.kind = "raised"
    /\ (efficiency_results # Pending /\ ~HasDefined("mid_price"))
            => efficiency_results.kind = "raised"

\* C15 as stated: with a positive one-step variance every reported ratio is a
\* number >= 0, whatever the lag.
C15_RatiosNonNegative ==
    (efficiency_results.kind = "dict" /\ V1 = "pos") =>
        \A k \in Range(lags) :
            efficiency_results.variance_ratios[k] \in {"zero", "pos"}

\* rows with |imbalance_5| > thr where imbalance_5 and the return at the best
\* horizon are both defined
StrongDefined(thr) ==
    {t \in 1..Len(df.rows) :
        /\ FloatGt(Abs(df.rows[t].imbalance_5), thr)
        /\ ForwardReturn(df.rows, imbalance_results.best_horizon, t) # NaN}

SignsAgree(t) ==
    Sgn(df.rows[t].imbalance_5[1])
        = Sgn(ForwardReturn(df.rows, imbalance_results.best_horizon, t)[1])

\* C16 as stated: a threshold is a key of directional_accuracy exactly when
\* some row has |imbalance_5| above it with imbalance_5 and the best-horizon
\* return defined, whatever the other columns hold, and its accuracy is the
\* fraction of those rows whose two signs are equal.
C16_AccuracyOverDefinedRows ==
    imbalance_results.kind = "dict" =>
        \A thr \in Range(thresholds) :
            /\ (thr \in DOMAIN imbalance_results.directional_accuracy)
                  <=> (StrongDefined(thr) # {})
            /\ (thr \in DOMAIN imbalance_results.directional_accuracy) =>
                  imbalance_results.directional_accuracy[thr]
                    = <<Cardinality({t \in StrongDefined(thr) : SignsAgree(t)}),
                        Cardinality(StrongDefined(thr))>>

-----------------------------------------------------------------------------
(* Properties of the top-level program *)

AnalyseRequested == argv = <<"analyse">> \/ (argv = <<>> /\ choice = "1")

\* C13 as stated: when `analyse` or menu option 1 ran and found no dataset, the
\* process has reported it and has ended with exit code 1 and no unhandled
\* exception.
C13_NoDatasetExitsOne ==
    (mpc = "exit" /\ AnalyseRequested /\ data_files = <<>>) =>
        /\ "No data files found." \in printed
        /\ fault = ""
        /\ exit_code = Num(1)

PipelineSteps ==
    <<"load", "imbalance test", "persist", "efficiency test", "persist",
      "imbalance chart", "variance chart", "summary">>

\* C14 as stated: when `analyse` found a dataset and both tests returned result
\* records, the process has ended with exit code 0 and no unhandled exception
\* after completing the steps load, imbalance test, persist, efficiency test,
\* persist, both charts and the summary, in that order.
C14_AnalyseCompletes ==
    ( /\ mpc = "exit"
      /\ argv = <<"analyse">>
      /\ data_files # <<>>
      /\ imbalance_results.kind = "dict"
      /\ efficiency_results.kind = "dict" ) =>
        /\ steps = PipelineSteps
        /\ fault = ""
        /\ exit_code = Num(0)

====
